---- MODULE Spec2Model ----
(***************************************************************************)
(* A model of the unscheduler schedule parser (src/unscheduler/parser.py). *)
(* Text is modelled as TLA+ strings, processed character by character the  *)
(* way the Python string methods, the regular expression and the           *)
(* dateutil time parser process them.                                      *)
(***************************************************************************)
EXTENDS Integers, Sequences, FiniteSets, TLC

(***************************************************************************)
(* Bounds of the model.                                                    *)
(***************************************************************************)
\* the longest input stream (number of lines) a pass reads
MaxLines == 3
\* the longest schedule file (number of lines) the app is started on
MaxFileLines == 3
\* the number of categories a ColorAssigner is asked about
MaxCategories == 22

(***************************************************************************)
(* Python values.                                                          *)
(***************************************************************************)
\* Optional values: None is the empty tuple, a present value x is <<x>>.
None == <<>>
Some(x) == <<x>>
\* Python truthiness of an optional string: None and '' are falsy.
Truthy(o) == o # None /\ o[1] # ""
\* `a or b` on optional strings.
Or(a, b) == IF Truthy(a) THEN a ELSE b

(***************************************************************************)
(* Python str methods, character by character.                             *)
(***************************************************************************)
Whitespace == {" ", "\t", "\n"}
\* s[k-1:k]: the k-th character of s, the empty string past its end
Char(s, k) == IF k \in 1..Len(s) THEN SubSeq(s, k, k) ELSE ""
\* no character of s is whitespace (the regular expression's \S+ on a whole string)
NoSpace(s) == \A k \in 1..Len(s) : Char(s, k) \notin Whitespace

RECURSIVE LStrip(_)
LStrip(s) ==
    IF s = "" THEN s
    ELSE IF Head(s) \in Whitespace THEN LStrip(Tail(s)) ELSE s

RECURSIVE RStrip(_)
RStrip(s) ==
    IF s = "" THEN s
    ELSE IF Char(s, Len(s)) \in Whitespace THEN RStrip(SubSeq(s, 1, Len(s) - 1))
    ELSE s

\* str.strip()
Strip(s) == RStrip(LStrip(s))

\* str.startswith(p)
StartsWith(s, p) == Len(s) >= Len(p) /\ SubSeq(s, 1, Len(p)) = p

\* the position of the first occurrence of character c in s from position
\* k on, 0 when there is none
RECURSIVE FindFrom(_, _, _)
FindFrom(s, c, k) ==
    IF k > Len(s) THEN 0
    ELSE IF SubSeq(s, k, k) = c THEN k
    ELSE FindFrom(s, c, k + 1)

\* s.find(c) + 1 for a one-character c
Find(s, c) == FindFrom(s, c, 1)

\* the lower-case form of each upper-case letter
LowerOf ==
    [A |-> "a", B |-> "b", C |-> "c", D |-> "d", E |-> "e", F |-> "f", G |-> "g",
     H |-> "h", I |-> "i", J |-> "j", K |-> "k", L |-> "l", M |-> "m", N |-> "n",
     O |-> "o", P |-> "p", Q |-> "q", R |-> "r", S |-> "s", T |-> "t", U |-> "u",
     V |-> "v", W |-> "w", X |-> "x", Y |-> "y", Z |-> "z"]
\* the upper-case form of each lower-case letter
UpperOf ==
    [a |-> "A", b |-> "B", c |-> "C", d |-> "D", e |-> "E", f |-> "F", g |-> "G",
     h |-> "H", i |-> "I", j |-> "J", k |-> "K", l |-> "L", m |-> "M", n |-> "N",
     o |-> "O", p |-> "P", q |-> "Q", r |-> "R", s |-> "S", t |-> "T", u |-> "U",
     v |-> "V", w |-> "W", x |-> "X", y |-> "Y", z |-> "Z"]

LowerChar(c) == IF c \in DOMAIN LowerOf THEN LowerOf[c] ELSE c
UpperChar(c) == IF c \in DOMAIN UpperOf THEN UpperOf[c] ELSE c

RECURSIVE Lower(_)
\* str.lower()
Lower(s) == IF s = "" THEN s ELSE LowerChar(Head(s)) \o Lower(Tail(s))

RECURSIVE Upper(_)
\* str.upper()
Upper(s) == IF s = "" THEN s ELSE UpperChar(Head(s)) \o Upper(Tail(s))

\* the last position of the run of non-whitespace characters of s that
\* starts at position k (k - 1 when the run is empty)
RECURSIVE WordEnd(_, _)
WordEnd(s, k) ==
    IF k <= Len(s) /\ Char(s, k) \notin Whitespace THEN WordEnd(s, k + 1) ELSE k - 1

RECURSIVE Split(_)
\* str.split() with no separator: the maximal runs of non-whitespace.
Split(s) ==
    IF s = "" THEN <<>>
    ELSE IF Head(s) \in Whitespace THEN Split(Tail(s))
    ELSE <<SubSeq(s, 1, WordEnd(s, 1))>> \o Split(SubSeq(s, WordEnd(s, 1) + 1, Len(s)))

RECURSIVE SplitOn(_, _, _)
\* s split at position k, where its first separator is (0: there is none)
SplitAt(s, sep, maxsplit, k) ==
    IF k = 0 \/ maxsplit = 0 THEN <<s>>
    ELSE <<SubSeq(s, 1, k - 1)>> \o SplitOn(SubSeq(s, k + 1, Len(s)), sep, maxsplit - 1)

\* str.split(sep, maxsplit) for a one-character sep; maxsplit = -1 is no limit.
SplitOn(s, sep, maxsplit) == SplitAt(s, sep, maxsplit, Find(s, sep))

RECURSIVE Join(_, _)
\* sep.join(words)
Join(sep, words) ==
    IF words = <<>> THEN ""
    ELSE IF Len(words) = 1 THEN words[1]
    ELSE words[1] \o sep \o Join(sep, Tail(words))

\* words[k:]
From(words, k) == SubSeq(words, k + 1, Len(words))

\* re.search(r'\s@(\S+)$', line): the position (1-based) of the whitespace
\* character that starts the match, 0 when there is no match.
InlineMatch(line) ==
    LET ks == {k \in 1..(Len(line) - 2) :
                  /\ Char(line, k) \in Whitespace
                  /\ Char(line, k + 1) = "@"
                  /\ NoSpace(SubSeq(line, k + 2, Len(line)))}
    IN  IF ks = {} THEN 0 ELSE CHOOSE k \in ks : \A j \in ks : k <= j

(***************************************************************************)
(* dateutil.parser.parse on one word, for the token forms of schedule      *)
(* files: H[H] with an am/pm suffix, H[H]:MM[:SS] with an optional am/pm   *)
(* suffix, and a bare one- or two-digit number (which dateutil reads as a  *)
(* day of the month, so its time is 00:00).  Every other word is an        *)
(* unknown string format.  The result is [ok, hour, minute, second];       *)
(* ok = FALSE models the ValueError (ParserError) dateutil raises.         *)
(***************************************************************************)
DigitChars == "0123456789"
Digits == {"0", "1", "2", "3", "4", "5", "6", "7", "8", "9"}
IsDigit(c) == c \in Digits
DigitVal(c) == Find(DigitChars, c) - 1

RECURSIVE ToInt(_)
\* int(s) for a string of digits
ToInt(s) == IF s = "" THEN 0 ELSE 10 * ToInt(SubSeq(s, 1, Len(s) - 1)) + DigitVal(Char(s, Len(s)))

ParseFail == [ok |-> FALSE, hour |-> 0, minute |-> 0, second |-> 0]
Time(h, m, s) == [ok |-> TRUE, hour |-> h, minute |-> m, second |-> s]

\* the last position of the run of digits of s that starts at position k
RECURSIVE DigitsEnd(_, _)
DigitsEnd(s, k) ==
    IF k <= Len(s) /\ IsDigit(Char(s, k)) THEN DigitsEnd(s, k + 1) ELSE k - 1

\* one numeric field of one or two digits from position k of s, given the
\* last position e of the run of digits there: the position after the
\* field, or 0 when there is no such field
FieldAfter(k, e) == IF e >= k /\ e - k < 2 THEN e + 1 ELSE 0
FieldEnd(s, k) == FieldAfter(k, DigitsEnd(s, k))

\* the am/pm suffix of a token, lower-cased: 0 for am, 1 for pm, -1 for no
\* suffix, -2 for any other text (an unknown string format)
AmPm(l) ==
    IF l = "" THEN -1
    ELSE IF l \in {"a", "am"} THEN 0
    ELSE IF l \in {"p", "pm"} THEN 1
    ELSE -2

\* the fields of a token put together: the 12-hour clock adjustment and the
\* range checks of datetime
Resolve(h, m, s, ampm) ==
    IF ampm = -2 THEN ParseFail
    ELSE IF ampm # -1 /\ h > 12 THEN ParseFail
    ELSE IF h > 23 \/ m > 59 \/ s > 59 THEN ParseFail
    ELSE IF ampm = 1 /\ h < 12 THEN Time(h + 12, m, s)
    ELSE IF ampm = 0 /\ h = 12 THEN Time(0, m, s)
    ELSE Time(h, m, s)

\* H:MM:SS[am|pm], the seconds field ending before position e3
ParseSecond(word, h, m, e2, e3) ==
    IF e3 = 0 THEN ParseFail
    ELSE Resolve(h, m, ToInt(SubSeq(word, e2 + 1, e3 - 1)),
                 AmPm(Lower(SubSeq(word, e3, Len(word)))))

\* H:MM..., the minutes field ending before position e2
ParseMinute(word, h, e1, e2) ==
    IF e2 = 0 THEN ParseFail
    ELSE IF Char(word, e2) = ":"
        THEN ParseSecond(word, h, ToInt(SubSeq(word, e1 + 1, e2 - 1)), e2,
                         FieldEnd(word, e2 + 1))
    ELSE Resolve(h, ToInt(SubSeq(word, e1 + 1, e2 - 1)), 0,
                 AmPm(Lower(SubSeq(word, e2, Len(word)))))

\* H..., the hour field ending before position e1
ParseHour(word, e1) ==
    IF e1 = 0 THEN ParseFail
    ELSE IF Char(word, e1) = ":"
        THEN ParseMinute(word, ToInt(SubSeq(word, 1, e1 - 1)), e1, FieldEnd(word, e1 + 1))
    ELSE IF e1 > Len(word)
        THEN \* a bare number is a day of the month (or a year): the time is 00:00
             IF ToInt(word) = 0 THEN ParseFail ELSE Time(0, 0, 0)
    ELSE Resolve(ToInt(SubSeq(word, 1, e1 - 1)), 0, 0,
                 AmPm(Lower(SubSeq(word, e1, Len(word)))))

parse(word) == ParseHour(word, FieldEnd(word, 1))

\* time.strftime('%H:%M')
TwoDigits(n) == Char(DigitChars, (n \div 10) + 1) \o Char(DigitChars, (n % 10) + 1)
strftime(t) == TwoDigits(t.hour) \o ":" \o TwoDigits(t.minute)

\* datetime.time ordering: a < b
TimeLess(a, b) ==
    \/ a.hour < b.hour
    \/ a.hour = b.hour /\ a.minute < b.minute
    \/ a.hour = b.hour /\ a.minute = b.minute /\ a.second < b.second

(***************************************************************************)
(* constants.py                                                            *)
(***************************************************************************)
DAY_CODES == "MTWRFSU"
COLOR_PALETTE ==
    <<"#AEC7E8", "#FFBB78", "#98DF8A", "#FF9896", "#C5B0D5", "#C49C94",
      "#F7B6D2", "#DBDB8D", "#9EDAE5", "#AD494A">>
DEFAULT_TRIGGER_COLOR == "black"

(***************************************************************************)
(* ColorAssigner.  A dict is a function on its set of keys.                *)
(***************************************************************************)
EmptyDict == [k \in {} |-> ""]
Put(d, k, v) == [j \in DOMAIN d \cup {k} |-> IF j = k THEN v ELSE d[j]]

\* ColorAssigner.__init__
NewColorAssigner(palette) ==
    [palette |-> palette, manual_color_map |-> EmptyDict, auto_color_map |-> EmptyDict,
     next_color_index |-> 0, palette_cycled |-> FALSE]

\* ColorAssigner.define_color: the assigner after the call
define_color(self, category, color) ==
    [self EXCEPT !.manual_color_map = Put(@, category, color)]

\* lines 26-28: a palette color is assigned to a category that has none
AssignNext(self, category, warn) ==
    [self |-> [self EXCEPT
                  !.palette_cycled = @ \/ warn,
                  !.auto_color_map =
                      Put(@, category, self.palette[(self.next_color_index % Len(self.palette)) + 1]),
                  !.next_color_index = @ + 1],
     color |-> self.palette[(self.next_color_index % Len(self.palette)) + 1],
     warned |-> warn]

\* get_color warning at every wrap of the palette (palette_cycled ignored)
get_color_WarnEveryWrap(self, category) ==
    IF category \in DOMAIN self.manual_color_map
        THEN [self |-> self, color |-> self.manual_color_map[category], warned |-> FALSE]
    ELSE IF category \notin DOMAIN self.auto_color_map
        THEN AssignNext(self, category,
                        /\ self.next_color_index >= Len(self.palette)
                        /\ self.next_color_index % Len(self.palette) = 0)
    ELSE [self |-> self, color |-> self.auto_color_map[category], warned |-> FALSE]

\* get_color looking up auto_color_map before manual_color_map
get_color_AutoFirst(self, category) ==
    IF category \in DOMAIN self.auto_color_map
        THEN [self |-> self, color |-> self.auto_color_map[category], warned |-> FALSE]
    ELSE IF category \in DOMAIN self.manual_color_map
        THEN [self |-> self, color |-> self.manual_color_map[category], warned |-> FALSE]
    ELSE AssignNext(self, category,
                    ~self.palette_cycled /\ self.next_color_index >= Len(self.palette))

\* ColorAssigner.get_color: [self: the assigner after the call, color: the
\* value returned, warned: whether the palette warning was printed]
get_color(self, category) ==
    IF category \in DOMAIN self.manual_color_map
        THEN [self |-> self, color |-> self.manual_color_map[category], warned |-> FALSE]
    ELSE IF category \notin DOMAIN self.auto_color_map
        THEN AssignNext(self, category,
                        ~self.palette_cycled /\ self.next_color_index >= Len(self.palette))
    ELSE [self |-> self, color |-> self.auto_color_map[category], warned |-> FALSE]

(***************************************************************************)
(* _parse_content: the locals of one pass, as a record.                    *)
(***************************************************************************)
\* the locals before the first line is read
NewPass ==
    [commitments |-> <<>>, categories_found |-> {}, parsing_errors_found |-> FALSE,
     non_work_categories |-> <<>>, color_assigner |-> NewColorAssigner(COLOR_PALETTE),
     current_category |-> None, in_non_work_section |-> FALSE,
     i |-> 0, stdout |-> <<>>, raised |-> FALSE]

\* LineKind comparing the marker without lower-casing the line
LineKind_CaseSensitive(ctx, line) ==
    IF line = "" \/ StartsWith(line, "#") THEN "skip"
    ELSE IF Strip(line) = "[NON-WORK-DEFINITION]" THEN "marker"
    ELSE IF StartsWith(line, "@") THEN "declaration"
    ELSE IF ctx.in_non_work_section THEN "entry"
    ELSE "commitment"

\* lines 41-63: how the loop body treats a stripped line
LineKind(ctx, line) ==
    IF line = "" \/ StartsWith(line, "#") THEN "skip"
    ELSE IF Lower(Strip(line)) = "[non-work-definition]" THEN "marker"
    ELSE IF StartsWith(line, "@") THEN "declaration"
    ELSE IF ctx.in_non_work_section THEN "entry"
    ELSE "commitment"

\* lines 43-45: the section marker
SectionMarker(ctx, line) == [ctx EXCEPT !.in_non_work_section = TRUE]

\* lines 50-54, given parts = line[1:].split(':', 1)
Declare(ctx, parts) ==
    [ctx EXCEPT
        !.in_non_work_section = FALSE,
        !.current_category = Some(Strip(parts[1])),
        !.categories_found = @ \cup {Strip(parts[1])},
        !.color_assigner =
            IF Len(parts) > 1 THEN define_color(@, Strip(parts[1]), Strip(parts[2]))
            ELSE @]

\* lines 47-55: an @Name[:color] declaration
Declaration(ctx, line) == Declare(ctx, SplitOn(SubSeq(line, 2, Len(line)), ":", 1))

RECURSIVE StripEach(_)
\* [cat.strip() for cat in cats]
StripEach(cats) ==
    IF cats = <<>> THEN <<>> ELSE <<Strip(Head(cats))>> \o StripEach(Tail(cats))

\* Entry extending the list instead of replacing it
Entry_Merge(ctx, parts) ==
    IF Len(parts) # 2 THEN [ctx EXCEPT !.raised = TRUE]
    ELSE IF Strip(parts[1]) = "non_work_categories"
        THEN [ctx EXCEPT !.non_work_categories = @ \o StripEach(SplitOn(parts[2], ",", -1))]
    ELSE ctx

\* lines 58-60, given parts = line.split('=', 1).  Unpacking parts into
\* (key, value) raises ValueError when the line has no '=', and nothing
\* catches it: the exception leaves _parse_content.
Entry(ctx, parts) ==
    IF Len(parts) # 2 THEN [ctx EXCEPT !.raised = TRUE]
    ELSE IF Strip(parts[1]) = "non_work_categories"
        THEN [ctx EXCEPT !.non_work_categories = StripEach(SplitOn(parts[2], ",", -1))]
    ELSE ctx

\* lines 57-61: a key = value line of the non-work section
NonWorkEntry(ctx, line) == Entry(ctx, SplitOn(line, "=", 1))

\* the result of get_color for a commitment that takes no palette color
NoColor(self, color) == [self |-> self, color |-> color, warned |-> FALSE]

\* the category of a trigger, had the context's current category applied to it
TriggerCategory_FromContext(ctx, p) == Or(p.inline_category, ctx.current_category)

\* lines 85-86: the category of a trigger
TriggerCategory(ctx, p) == IF Truthy(p.inline_category) THEN p.inline_category ELSE None

\* lines 85-86: the color of a trigger of that category
TriggerColor(self, category) ==
    IF category # None THEN get_color(self, category[1])
    ELSE NoColor(self, DEFAULT_TRIGGER_COLOR)

\* line 91: the color of a block
BlockColor(self, event_category) ==
    IF Truthy(event_category) THEN get_color(self, event_category[1])
    ELSE NoColor(self, "gray")

\* line 92: commitments.append(event), with what computing the event's color
\* c did to the assigner and printed
Appended(ctx, c, event) ==
    [ctx |-> [ctx EXCEPT
                 !.color_assigner = c.self,
                 !.stdout = IF c.warned THEN Append(@, [warning |-> "palette"]) ELSE @,
                 !.commitments = Append(@, [event EXCEPT !.color = c.color])],
     raised |-> FALSE]

\* the exception of a statement of the try block: nothing more of it runs
Raise(ctx) == [ctx |-> ctx, raised |-> TRUE]

\* lines 84-86: a trigger, given time = parse(words[2])
AppendTrigger(ctx, p, day_char, time) ==
    IF ~time.ok THEN Raise(ctx)
    ELSE Appended(ctx, TriggerColor(ctx.color_assigner, TriggerCategory(ctx, p)),
                  [recurrence |-> p.recurrence, day_code |-> day_char,
                   type |-> "trigger", time |-> strftime(time),
                   event |-> Join(" ", From(p.words, 3)),
                   category |-> TriggerCategory(ctx, p),
                   color |-> ""])

\* event_category with the operands of `or` exchanged
EventCategory_ContextFirst(ctx, p) == Or(ctx.current_category, p.inline_category)

\* line 89: event_category
EventCategory(ctx, p) == Or(p.inline_category, ctx.current_category)

\* line 90: if event_category: categories_found.add(event_category)
AddCategory(ctx, event_category) ==
    IF Truthy(event_category)
        THEN [ctx EXCEPT !.categories_found = @ \cup {event_category[1]}]
        ELSE ctx

\* AppendBlock with the color looked up before the times are parsed: the
\* exception of a bad start time leaves the color assigned
AppendBlock_ColorFirst(ctx, p, day_char, start_time, end_time) ==
    IF ~start_time.ok \/ ~end_time.ok
        THEN Raise([ctx EXCEPT !.color_assigner =
                                   BlockColor(@, EventCategory(ctx, p)).self])
    ELSE Appended(AddCategory(ctx, EventCategory(ctx, p)),
                  BlockColor(ctx.color_assigner, EventCategory(ctx, p)),
                  [recurrence |-> p.recurrence, day_code |-> day_char,
                   type |-> "block", start |-> strftime(start_time),
                   end |-> strftime(end_time),
                   event |-> Join(" ", From(p.words, 4)),
                   category |-> EventCategory(ctx, p),
                   color |-> "",
                   spans_midnight |-> TimeLess(end_time, start_time)])

\* lines 88-91: a block, given start_time = parse(words[2]) and
\* end_time = parse(words[3])
AppendBlock(ctx, p, day_char, start_time, end_time) ==
    IF ~start_time.ok \/ ~end_time.ok THEN Raise(ctx)
    ELSE Appended(AddCategory(ctx, EventCategory(ctx, p)),
                  BlockColor(ctx.color_assigner, EventCategory(ctx, p)),
                  [recurrence |-> p.recurrence, day_code |-> day_char,
                   type |-> "block", start |-> strftime(start_time),
                   end |-> strftime(end_time),
                   event |-> Join(" ", From(p.words, 4)),
                   category |-> EventCategory(ctx, p),
                   color |-> "",
                   spans_midnight |-> TimeLess(end_time, start_time)])

\* lines 82-92: the commitment of one valid day letter.  [ctx, raised]:
\* raised = TRUE is an exception inside the try block.
AppendEvent(ctx, p, day_char) ==
    IF p.is_trigger
        THEN AppendTrigger(ctx, p, day_char, parse(p.words[3]))
        ELSE AppendBlock(ctx, p, day_char, parse(p.words[3]), parse(p.words[4]))

RECURSIVE DayLoop(_, _, _)
\* the loop goes on after the commitment of character k, unless it raised
DayLoopNext(r, p, k) == IF r.raised THEN r ELSE DayLoop(r.ctx, p, k + 1)

\* DayLoop with `break` for `continue` at a character that is no day letter
DayLoop_StopAtInvalid(ctx, p, k) ==
    IF k > Len(p.day_str) THEN [ctx |-> ctx, raised |-> FALSE]
    ELSE IF Find(DAY_CODES, Char(p.day_str, k)) = 0 THEN [ctx |-> ctx, raised |-> FALSE]
    ELSE DayLoopNext(AppendEvent(ctx, p, Char(p.day_str, k)), p, k)

\* lines 79-92: `for day_char in day_str`, from character k on
DayLoop(ctx, p, k) ==
    IF k > Len(p.day_str) THEN [ctx |-> ctx, raised |-> FALSE]
    ELSE IF Find(DAY_CODES, Char(p.day_str, k)) = 0 THEN DayLoop(ctx, p, k + 1)
    ELSE DayLoopNext(AppendEvent(ctx, p, Char(p.day_str, k)), p, k)

\* is_trigger trying the fifth word instead of the fourth
IsTrigger_FifthWord(words) == IF Len(words) >= 5 THEN ~parse(words[5]).ok ELSE TRUE

\* lines 74-76: is_trigger.  words[3] raises IndexError on a 3-word line,
\* parse raises ValueError on a word that is no time.
IsTrigger(words) == IF Len(words) >= 4 THEN ~parse(words[4]).ok ELSE TRUE

\* the text the regular expression matched from position inline_match on:
\* group(1), None when there was no match
Group1(line, inline_match) ==
    IF inline_match # 0 THEN Some(SubSeq(line, inline_match + 2, Len(line))) ELSE None

\* lines 64-67: inline_category, None when the line has no trailing @token
InlineCategory(line) == Group1(line, InlineMatch(line))

\* line[:inline_match.start()].strip(), the line itself when there was no match
CutAt(line, inline_match) ==
    IF inline_match # 0 THEN Strip(SubSeq(line, 1, inline_match - 1)) ELSE line

\* line 69: the line after its inline @token was cut off
WithoutInline(line) == CutAt(line, InlineMatch(line))

\* line 71: words
Words(line) == Split(WithoutInline(line))

\* the inline category left out of categories_found
AddInline_NotRecorded(ctx, inline_category) == ctx

\* line 68 with the inline category also stored as the current category
AddInline_SetsCurrent(ctx, inline_category) ==
    IF inline_category # None
        THEN [ctx EXCEPT !.categories_found = @ \cup {inline_category[1]},
                         !.current_category = inline_category]
        ELSE ctx

\* line 68: categories_found.add(inline_category)
AddInline(ctx, inline_category) ==
    IF inline_category # None
        THEN [ctx EXCEPT !.categories_found = @ \cup {inline_category[1]}]
        ELSE ctx

\* TryWords raising on a line of fewer than 3 words instead of skipping it
TryWords_ShortRaises(ctx, inline_category, words) ==
    IF Len(words) < 3 THEN Raise(ctx)
    ELSE DayLoop(ctx,
                 [words |-> words, inline_category |-> inline_category,
                  is_trigger |-> IsTrigger(words),
                  recurrence |-> words[1], day_str |-> Upper(words[2])],
                 1)

\* lines 72-92: the try block from `if len(words) < 3: continue` on
TryWords(ctx, inline_category, words) ==
    IF Len(words) < 3 THEN [ctx |-> ctx, raised |-> FALSE]
    ELSE DayLoop(ctx,
                 [words |-> words, inline_category |-> inline_category,
                  is_trigger |-> IsTrigger(words),
                  recurrence |-> words[1], day_str |-> Upper(words[2])],
                 1)

\* lines 93-95: except Exception, for the outcome r of the try block on
\* line number i
Except(r, i, line) ==
    IF r.raised
        THEN [r.ctx EXCEPT !.stdout = Append(@, [error |-> i, line |-> line]),
                           !.parsing_errors_found = TRUE]
        ELSE r.ctx

\* lines 63-95: a commitment line, inside try/except Exception
CommitmentLine(ctx, line) ==
    Except(TryWords(AddInline(ctx, InlineCategory(line)), InlineCategory(line), Words(line)),
           ctx.i, WithoutInline(line))

\* lines 41-63: the branch of the loop body a line takes
Dispatch(ctx, line, kind) ==
    CASE kind = "skip" -> ctx
      [] kind = "marker" -> SectionMarker(ctx, line)
      [] kind = "declaration" -> Declaration(ctx, line)
      [] kind = "entry" -> NonWorkEntry(ctx, line)
      [] kind = "commitment" -> CommitmentLine(ctx, line)

\* lines 39-95: the loop body on the next line of the stream, numbered and
\* stripped
LoopBody(ctx, raw) ==
    Dispatch([ctx EXCEPT !.i = @ + 1], Strip(raw), LineKind(ctx, Strip(raw)))

RECURSIVE ParseFrom(_, _)
\* the loop of _parse_content on the lines of a stream, from the locals ctx;
\* an exception that leaves the loop ends it
ParseFrom(ctx, lines) ==
    IF lines = <<>> \/ ctx.raised THEN ctx
    ELSE ParseFrom(LoopBody(ctx, Head(lines)), Tail(lines))

\* _parse_content(file_stream): the locals at the return statement (or at the
\* escaping exception)
_parse_content(file_stream) == ParseFrom(NewPass, file_stream)

\* parse_schedule_file(filename): _parse_content on the lines of the file
parse_schedule_file(file) == _parse_content(file)

\* get_events_for_week with the recurrence compared to `Week` alone
get_events_for_week_AnyWeek(all_commitments, week_type) ==
    SelectSeq(all_commitments,
              LAMBDA c : c.recurrence = "Weekly" \/ StartsWith(c.recurrence, "Week"))

\* get_events_for_week(all_commitments, week_type)
get_events_for_week(all_commitments, week_type) ==
    SelectSeq(all_commitments,
              LAMBDA c : c.recurrence = "Weekly" \/ c.recurrence = "Week" \o week_type)

(***************************************************************************)
(* stats.py.  Times are the HH:MM strings of the commitments; hours are    *)
(* kept as whole minutes (the value of the Python float times 60), which   *)
(* is exact for durations between HH:MM times.                             *)
(***************************************************************************)
\* Python's < on two strings made of digits and ':' (code points 48..58)
CodeOrder == "0123456789:"
RECURSIVE StrLess(_, _)
StrLess(a, b) ==
    IF b = "" THEN FALSE
    ELSE IF a = "" THEN TRUE
    ELSE IF Head(a) = Head(b) THEN StrLess(Tail(a), Tail(b))
    ELSE Find(CodeOrder, Head(a)) < Find(CodeOrder, Head(b))

DAY_NAME_MAP ==
    [M |-> "Monday", T |-> "Tuesday", W |-> "Wednesday", R |-> "Thursday",
     F |-> "Friday", S |-> "Saturday", U |-> "Sunday"]

RECURSIVE InsertByStart(_, _)
\* sorted(..., key=start) is stable: an element goes after every element
\* whose start is not greater than its own
InsertByStart(sorted, e) ==
    IF sorted = <<>> THEN <<e>>
    ELSE IF StrLess(e.start, Head(sorted).start) THEN <<e>> \o sorted
    ELSE <<Head(sorted)>> \o InsertByStart(Tail(sorted), e)

RECURSIVE SortedByStart(_, _)
\* sorted(blocks, key=lambda x: x['start']), the elements of blocks added
\* to the sorted list acc in their order
SortedByStart(acc, blocks) ==
    IF blocks = <<>> THEN acc
    ELSE SortedByStart(InsertByStart(acc, Head(blocks)), Tail(blocks))

\* line 10: daily_blocks
daily_blocks(all_commitments, day_code) ==
    SortedByStart(<<>>,
                  SelectSeq(all_commitments,
                            LAMBDA e : e.type = "block" /\ e.day_code = day_code))

\* line 19: the warning printed for a pair
Overlap(day_code, prev_event, curr_event) ==
    [overlap |-> DAY_NAME_MAP[day_code], prev_event |-> prev_event, curr_event |-> curr_event]

RECURSIVE ScanPairs_AnyEarlier(_, _, _)
\* the scan comparing each block to the first block of the day instead of
\* its predecessor
ScanPairs_AnyEarlier(blocks, day_code, i) ==
    IF i > Len(blocks) THEN <<>>
    ELSE (IF StrLess(blocks[i].start, blocks[1].end)
            THEN <<Overlap(day_code, blocks[1], blocks[i])>> ELSE <<>>)
         \o ScanPairs_AnyEarlier(blocks, day_code, i + 1)

\* the scan stopping after the first pair of the day
ScanPairs_FirstPairOnly(blocks, day_code, i) ==
    IF i > Len(blocks) \/ i > 2 THEN <<>>
    ELSE IF StrLess(blocks[i].start, blocks[i - 1].end)
        THEN <<Overlap(day_code, blocks[i - 1], blocks[i])>>
    ELSE <<>>

RECURSIVE ScanPairs(_, _, _)
\* lines 13-19: the warnings of the adjacent pairs of a day from index i on
\* (i counts from 2 here, from 1 in the code)
ScanPairs(blocks, day_code, i) ==
    IF i > Len(blocks) THEN <<>>
    ELSE (IF StrLess(blocks[i].start, blocks[i - 1].end)
            THEN <<Overlap(day_code, blocks[i - 1], blocks[i])>> ELSE <<>>)
         \o ScanPairs(blocks, day_code, i + 1)

RECURSIVE OverlapsFrom(_, _)
\* lines 9-19: the warnings of the days from the k-th day code on
OverlapsFrom(all_commitments, k) ==
    IF k > Len(DAY_CODES) THEN <<>>
    ELSE ScanPairs(daily_blocks(all_commitments, Char(DAY_CODES, k)), Char(DAY_CODES, k), 2)
         \o OverlapsFrom(all_commitments, k + 1)

\* lines 20-21, given the warnings printed
OverlapReport(warnings) ==
    IF warnings = <<>> THEN <<[note |-> "No overlaps found."]>> ELSE warnings

\* check_for_overlaps(all_commitments): the lines printed after the heading
check_for_overlaps(all_commitments) == OverlapReport(OverlapsFrom(all_commitments, 1))

\* datetime.strptime(s, '%H:%M'), in minutes since 00:00
strptime(s) == ToInt(SubSeq(s, 1, 2)) * 60 + ToInt(SubSeq(s, 4, 5))

\* lines 31-33 with the negative duration negated instead of wrapped
Duration_Abs(minutes) == IF minutes < 0 THEN 0 - minutes ELSE minutes

\* lines 31-33: duration, given end - start in minutes
Duration(minutes) == IF minutes < 0 THEN minutes + 24 * 60 ELSE minutes

\* line 35: multiplier
Multiplier(event) == IF event.recurrence = "Weekly" THEN 2 ELSE 1

\* lines 29-36: biweekly_duration of a block
biweekly_duration(event) ==
    Duration(strptime(event.end) - strptime(event.start)) * Multiplier(event)

\* category_hours.get(category, 0)
Get(d, k) == IF k \in DOMAIN d THEN d[k] ELSE 0

\* the empty category_hours
NoHours == [k \in {} |-> 0]

\* lines 28-40: what one event adds to category_hours
AddHours(category_hours, event) ==
    IF event.type = "block" /\ Truthy(event.category)
        THEN Put(category_hours, event.category[1],
                 Get(category_hours, event.category[1]) + biweekly_duration(event))
        ELSE category_hours

RECURSIVE Accumulate(_, _)
\* lines 27-40: the loop over all_commitments
Accumulate(category_hours, events) ==
    IF events = <<>> THEN category_hours
    ELSE Accumulate(AddHours(category_hours, Head(events)), Tail(events))

RECURSIVE SumOver(_, _)
\* sum of d[k] for k in keys
SumOver(d, keys) ==
    IF keys = {} THEN 0
    ELSE SumOver(d, keys \ {CHOOSE k \in keys : TRUE}) + d[CHOOSE k \in keys : TRUE]

\* line 48: sum(category_hours.values())
SumValues(d) == SumOver(d, DOMAIN d)

\* line 49: total_hours, in minutes
total_hours == 2 * 7 * 24 * 60

RECURSIVE ToSet(_)
\* set(non_work_categories)
ToSet(list) == IF list = <<>> THEN {} ELSE {Head(list)} \cup ToSet(Tail(list))

\* lines 60-61: the report, given category_hours as the loop left it
\* (accumulated), as line 50 left it, and the work categories (as a set)
ReportOf(accumulated, category_hours, work_categories) ==
    [accumulated |-> accumulated,
     category_hours |-> category_hours,
     work_categories |-> work_categories,
     total_available_hours |->
         SumOver(category_hours, work_categories \cap DOMAIN category_hours)
         + Get(category_hours, "Unscheduled")]

\* lines 48-50: category_hours['Unscheduled'] = total_hours - total_scheduled
Report(accumulated, work_categories) ==
    ReportOf(accumulated,
             Put(accumulated, "Unscheduled", total_hours - SumValues(accumulated)),
             work_categories)

\* calculate_and_print_stats(all_commitments, all_categories, non_work_categories)
calculate_and_print_stats(all_commitments, all_categories, non_work_categories) ==
    Report(Accumulate(NoHours, all_commitments), all_categories \ ToSet(non_work_categories))

(***************************************************************************)
(* tui.py: UnscheduleApp.  The app is a record of its attributes;          *)
(* `calls` lists what the last run_analysis called, with what each call    *)
(* printed or was given.                                                   *)
(***************************************************************************)
\* SettingsManager.default_settings
default_settings ==
    [orientation |-> "Landscape", time_format |-> "24h", start_hour |-> 3, end_hour |-> 22]

\* UnscheduleApp.__init__, given what load_settings returned
NewApp(saved_settings) ==
    [orientation |-> saved_settings.orientation,
     time_format |-> saved_settings.time_format,
     start_hour |-> saved_settings.start_hour,
     end_hour |-> saved_settings.end_hour,
     all_commitments |-> <<>>, all_categories |-> {}, non_work_cats |-> <<>>,
     report_panel |-> [markup |-> "Ready."],
     calls |-> <<>>]

\* lines 219-225: one create_calendar_pdf call (figsize in tenths of an inch)
Calendar(self, title, week_events) ==
    [call |-> "create_calendar_pdf", events |-> week_events, title |-> title,
     start_hour |-> self.start_hour, end_hour |-> self.end_hour,
     time_format |-> self.time_format,
     figsize |-> IF self.orientation = "Portrait" THEN <<85, 110>> ELSE <<110, 85>>]

\* lines 207-208: the results of the pass are stored in the app
Store(self, parsed) ==
    [self EXCEPT !.all_commitments = parsed.commitments,
                 !.all_categories = parsed.categories_found,
                 !.non_work_cats = parsed.non_work_categories]

\* lines 213-234: the rest of run_analysis after a pass without errors
Analyse(self) ==
    [self EXCEPT
        !.report_panel = [markup |-> "out.getvalue()"],
        !.calls =
            << [call |-> "parse_schedule_file"],
               [call |-> "check_for_overlaps",
                printed |-> check_for_overlaps(self.all_commitments)],
               [call |-> "calculate_and_print_stats",
                report |-> calculate_and_print_stats(self.all_commitments,
                                                     self.all_categories,
                                                     self.non_work_cats)],
               Calendar(self, "Week A", get_events_for_week(self.all_commitments, "A")),
               Calendar(self, "Week B", get_events_for_week(self.all_commitments, "B")) >>]

\* lines 209-212: errors, the panel says so and run_analysis returns
Refuse(self) ==
    [self EXCEPT !.report_panel = [markup |-> "Parsing errors detected."],
                 !.calls = <<[call |-> "parse_schedule_file"]>>]

\* lines 209-234 without the `if errors` test
AfterParse_IgnoreErrors(self, parsed) == Analyse(Store(self, parsed))

\* lines 207-237, given what parse_schedule_file did: an exception that
\* left it is caught at line 235, before the results are stored
AfterParse(self, parsed) ==
    IF parsed.raised
        THEN [self EXCEPT !.report_panel = [markup |-> "An error occurred during analysis"],
                          !.calls = <<[call |-> "parse_schedule_file"]>>]
    ELSE IF parsed.parsing_errors_found THEN Refuse(Store(self, parsed))
    ELSE Analyse(Store(self, parsed))

\* UnscheduleApp.run_analysis, given the lines of the schedule file
run_analysis(self, file) == AfterParse(self, parse_schedule_file(file))

(***************************************************************************)
(* tui.py: the start and end hour prompts.  A conversion gives             *)
(* [ok, value]; not ok is the ValueError it raises.                        *)
(***************************************************************************)
NoHour == [ok |-> FALSE, value |-> 0]
Hour(h) == [ok |-> TRUE, value |-> h]

\* _H24_RE.match(s) on a stripped s: 24, 2400 or 24:00
H24_RE(s) == s \in {"24", "2400", "24:00"}

\* _H_RE.match(s) on a stripped s: one or two digits
H_RE(s) == Len(s) \in 1..2 /\ DigitsEnd(s, 1) = Len(s)

\* lines 61-64 and 78-80: a bare hour must be in 0..23
InRange(h) == IF 0 <= h /\ h <= 23 THEN Hour(h) ELSE NoHour

\* line 66: dt.hour, given dt = parse_dt(s)
Floor(dt) == IF dt.ok THEN Hour(dt.hour) ELSE NoHour

\* line 82: dt.hour if dt.minute == 0 else min(dt.hour + 1, 24)
Ceil(dt) ==
    IF ~dt.ok THEN NoHour
    ELSE IF dt.minute = 0 THEN Hour(dt.hour)
    ELSE Hour(IF dt.hour + 1 < 24 THEN dt.hour + 1 ELSE 24)

\* lines 57-66 on the stripped string
StartHour(s) ==
    IF H24_RE(s) THEN NoHour
    ELSE IF H_RE(s) THEN InRange(ToInt(s))
    ELSE Floor(parse(s))

\* parse_start_hour(s)
parse_start_hour(s) == StartHour(Strip(s))

\* lines 71-82 on the stripped string
EndHour(s) ==
    IF H24_RE(s) THEN Hour(24)
    ELSE IF H_RE(s) THEN (IF ToInt(s) = 24 THEN Hour(24) ELSE InRange(ToInt(s)))
    ELSE Ceil(parse(s))

\* parse_end_hour(s)
parse_end_hour(s) == EndHour(Strip(s))

\* lines 153-161 and 246-250: the watcher of a changed hour saves the settings
Settings(self) ==
    [orientation |-> self.orientation, time_format |-> self.time_format,
     start_hour |-> self.start_hour, end_hour |-> self.end_hour]

\* lines 274-276 and 290-292: the prompt's answer is refused
Invalid(self, what) == [self EXCEPT !.report_panel = [markup |-> what]]

\* lines 269-276 without the comparison with end_hour
ApplyStart_AnyStart(self, new_start, file) ==
    IF ~new_start.ok
        THEN Invalid(self, "Invalid start time")
    ELSE run_analysis([self EXCEPT !.start_hour = new_start.value], file)

\* lines 269-276, given new_start = parse_start_hour(result)
ApplyStart(self, new_start, file) ==
    IF ~new_start.ok \/ ~(0 <= new_start.value /\ new_start.value < self.end_hour)
        THEN Invalid(self, "Invalid start time")
    ELSE run_analysis([self EXCEPT !.start_hour = new_start.value], file)

\* action_set_start_hour: _apply(result), with the lines of the schedule file
action_set_start_hour(self, result, file) ==
    IF result = "" THEN self ELSE ApplyStart(self, parse_start_hour(result), file)

\* lines 285-292, given new_end = parse_end_hour(result)
ApplyEnd(self, new_end, file) ==
    IF ~new_end.ok \/ ~(self.start_hour < new_end.value /\ new_end.value <= 24)
        THEN Invalid(self, "Invalid end time")
    ELSE run_analysis([self EXCEPT !.end_hour = new_end.value], file)

\* action_set_end_hour: _apply(result), with the lines of the schedule file
action_set_end_hour(self, result, file) ==
    IF result = "" THEN self ELSE ApplyEnd(self, parse_end_hour(result), file)

(***************************************************************************)
(* unscheduler.py: the legacy script.  Its parser is the loop of           *)
(* _parse_content without the non-work section.                            *)
(***************************************************************************)
\* unscheduler.py lines 51-61: how the loop body treats a stripped line
LegacyLineKind(line) ==
    IF line = "" \/ StartsWith(line, "#") THEN "skip"
    ELSE IF StartsWith(line, "@") THEN "declaration"
    ELSE "commitment"

RECURSIVE LegacyParseFrom(_, _)
\* unscheduler.py lines 50-95: the loop over the lines of the file
LegacyParseFrom(ctx, lines) ==
    IF lines = <<>> THEN ctx
    ELSE LegacyParseFrom(Dispatch([ctx EXCEPT !.i = @ + 1], Strip(Head(lines)),
                                  LegacyLineKind(Strip(Head(lines)))),
                         Tail(lines))

\* unscheduler.py parse_schedule_file
legacy_parse_schedule_file(file) == LegacyParseFrom(NewPass, file)

\* int(s) of a prompt answer: [ok, value], not ok is ValueError
int(s) ==
    IF s # "" /\ DigitsEnd(s, 1) = Len(s) THEN [ok |-> TRUE, value |-> ToInt(s)]
    ELSE [ok |-> FALSE, value |-> 0]

\* unscheduler.py lines 219-225, given category_hours as the loop left it
LegacyReport(accumulated) ==
    IF DOMAIN accumulated = {} THEN [note |-> "No scheduled blocks found to analyze."]
    ELSE [category_hours |->
              Put(accumulated, "Unscheduled", total_hours - SumValues(accumulated))]

\* unscheduler.py calculate_and_print_stats(all_commitments)
legacy_calculate_and_print_stats(all_commitments) ==
    LegacyReport(Accumulate(NoHours, all_commitments))

\* unscheduler.py lines 266-267: one create_calendar_pdf call
LegacyCalendar(title, week_events, start_hour, end_hour, orient) ==
    [call |-> "create_calendar_pdf", events |-> week_events, title |-> title,
     start_hour |-> start_hour, end_hour |-> end_hour,
     figsize |-> IF orient = "P" THEN <<85, 110>> ELSE <<110, 85>>]

\* unscheduler.py lines 253-270, given the answers to the prompts converted
LegacyGenerate(parsed, start_hour, end_hour, orient) ==
    IF ~start_hour.ok \/ ~end_hour.ok
        THEN <<[call |-> "parse_schedule_file"], [exit |-> "Invalid input."]>>
    ELSE << [call |-> "parse_schedule_file"],
            LegacyCalendar("Week A", get_events_for_week(parsed.commitments, "A"),
                           start_hour.value, end_hour.value, orient),
            LegacyCalendar("Week B", get_events_for_week(parsed.commitments, "B"),
                           start_hour.value, end_hour.value, orient),
            [call |-> "calculate_and_print_stats",
             report |-> legacy_calculate_and_print_stats(parsed.commitments)] >>

\* unscheduler.py lines 248-270, given what parse_schedule_file returned
LegacyAfterParse(parsed, start_h_str, end_h_str, orient) ==
    IF parsed.parsing_errors_found
        THEN <<[call |-> "parse_schedule_file"], [exit |-> "Parsing errors detected."]>>
    ELSE LegacyGenerate(parsed, int(start_h_str), int(end_h_str), orient)

\* unscheduler.py main, on an existing file and the answers to its three
\* prompts: what it called and printed
main(file, start_h_str, end_h_str, orient) ==
    LegacyAfterParse(legacy_parse_schedule_file(file),
                     IF start_h_str = "" THEN "3" ELSE start_h_str,
                     IF end_h_str = "" THEN "22" ELSE end_h_str,
                     IF Upper(orient) = "" THEN "L" ELSE Upper(orient))

(***************************************************************************)
(* The input lines the model draws from.                                   *)
(***************************************************************************)
Lines ==
    { " \n",
      "# note",
      "[Non-Work-Definition]",
      "@Teaching",
      "@Sleep:red",
      "non_work_categories = Sleep, Family",
      "non_work_categories=Play",
      "Weekly M 9a 10a Test Event @TestCategory",
      "WeekA mxF 1p 2p Lab",
      "WeekB TR 7:30 Wake = up @Health",
      "Weekly U 6a",
      "Weekly MW 9x 10a Oops @Err",
      "Weekly M 25:00 Bad",
      "Weekly S 11p 1a Sleep",
      "Weekly S 9:00:30 9:00:10 Q",
      "Weekly M @X",
      "Weekly xyz bad" }

(***************************************************************************)
(* The state: a parse pass, the app with its files, the last run of the    *)
(* legacy script, and a ColorAssigner used on its own.                     *)
(***************************************************************************)
VARIABLES
    file_stream,     \* the lines read so far
    pc,              \* "reading", "returned" or "raised" (an exception left the pass)
    locals,          \* the locals of _parse_content
    before,          \* history: the locals as they were before the last line read
    schedule_file,   \* the lines of the schedule file on disk
    settings_file,   \* the settings file: None, or the settings saved in it
    app,             \* the UnscheduleApp
    prompt,          \* history: the last answer to an hour prompt and its conversion
    legacy,          \* what the last run of the legacy script called and printed
    color_assigner,  \* a ColorAssigner
    requested,       \* history: the categories in the order they took a palette color
    returned,        \* history: the last get_color call and what it did
    warnings         \* the number of palette warnings printed

passVars == <<file_stream, pc, locals, before>>
appVars == <<schedule_file, settings_file, app, prompt, legacy>>
colorVars == <<color_assigner, requested, returned, warnings>>
vars == <<file_stream, pc, locals, before, schedule_file, settings_file, app, prompt,
          legacy, color_assigner, requested, returned, warnings>>

\* SettingsManager.load_settings
load_settings(file) == IF file = None THEN default_settings ELSE file[1]

NoPrompt == [action |-> "none"]
NoCall == [call |-> "none"]

\* no pass is running
NoPass ==
    /\ file_stream = <<>>
    /\ pc = "returned"
    /\ locals = NewPass
    /\ before = NewPass

\* no app and no legacy script were started
NoApp ==
    /\ schedule_file = <<>>
    /\ settings_file = None
    /\ app = NewApp(default_settings)
    /\ prompt = NoPrompt
    /\ legacy = <<>>

\* a new ColorAssigner
NoColors ==
    /\ color_assigner = NewColorAssigner(COLOR_PALETTE)
    /\ requested = <<>>
    /\ returned = NoCall
    /\ warnings = 0

(***************************************************************************)
(* The pass as a state machine: one step per line read.                    *)
(***************************************************************************)
Init ==
    /\ file_stream = <<>>
    /\ pc = "reading"
    /\ locals = NewPass
    /\ before = NewPass
    /\ NoApp
    /\ NoColors

\* line 39: the loop can read raw as its next line, and the body treats it
\* as `kind`
Reads(raw, kind) ==
    /\ pc = "reading"
    /\ Len(file_stream) < MaxLines
    /\ LineKind(locals, Strip(raw)) = kind

\* line 39: enumerate(file_stream, 1) numbers the line read
Numbered(ctx) == [ctx EXCEPT !.i = @ + 1]

\* line 41: a blank line or a comment
ReadBlankOrComment ==
    \E raw \in Lines :
        /\ Reads(raw, "skip")
        /\ file_stream' = Append(file_stream, raw)
        /\ before' = locals
        /\ locals' = Numbered(locals)
        /\ pc' = "reading"
        /\ UNCHANGED <<appVars, colorVars>>

\* lines 43-45: the [NON-WORK-DEFINITION] marker
ReadSectionMarker ==
    \E raw \in Lines :
        /\ Reads(raw, "marker")
        /\ file_stream' = Append(file_stream, raw)
        /\ before' = locals
        /\ locals' = SectionMarker(Numbered(locals), Strip(raw))
        /\ pc' = "reading"
        /\ UNCHANGED <<appVars, colorVars>>

\* lines 47-55: an @Name[:color] declaration
ReadDeclaration ==
    \E raw \in Lines :
        /\ Reads(raw, "declaration")
        /\ file_stream' = Append(file_stream, raw)
        /\ before' = locals
        /\ locals' = Declaration(Numbered(locals), Strip(raw))
        /\ pc' = "reading"
        /\ UNCHANGED <<appVars, colorVars>>

\* lines 57-61: a line of the non-work section; its ValueError ends the pass
ReadNonWorkEntry ==
    \E raw \in Lines :
        /\ Reads(raw, "entry")
        /\ file_stream' = Append(file_stream, raw)
        /\ before' = locals
        /\ locals' = NonWorkEntry(Numbered(locals), Strip(raw))
        /\ pc' = IF locals'.raised THEN "raised" ELSE "reading"
        /\ UNCHANGED <<appVars, colorVars>>

\* lines 63-95: a commitment line
ReadCommitmentLine ==
    \E raw \in Lines :
        /\ Reads(raw, "commitment")
        /\ file_stream' = Append(file_stream, raw)
        /\ before' = locals
        /\ locals' = CommitmentLine(Numbered(locals), Strip(raw))
        /\ pc' = IF locals'.raised THEN "raised" ELSE "reading"
        /\ UNCHANGED <<appVars, colorVars>>

\* the stream ends: line 96, return
Return ==
    /\ pc = "reading"
    /\ pc' = "returned"
    /\ UNCHANGED <<file_stream, locals, before, appVars, colorVars>>

Next ==
    \/ ReadBlankOrComment
    \/ ReadSectionMarker
    \/ ReadDeclaration
    \/ ReadNonWorkEntry
    \/ ReadCommitmentLine
    \/ Return

Spec == Init /\ [][Next]_vars

(***************************************************************************)
(* The analysis of a schedule file: the app is started on it (on_mount     *)
(* calls run_analysis), or the legacy script is run on it.                 *)
(***************************************************************************)
\* the lines the schedule files are made of
StatLines ==
    { "Weekly M 9a 10a Math @Work",
      "WeekA M 9:30 11a Lab",
      "WeekB M 10a 11a Talk @Unscheduled",
      "Monthly M 8a 12p Long @Work",
      "Weekly S 11p 1a Sleep @Sleep",
      "Weekly MS 23:30 23:45 Tea @Sleep",
      "Weekly U 6a Wake @Health",
      "Weekly M 9x 10a Oops",
      "[NON-WORK-DEFINITION]" }

\* the schedule files: up to MaxFileLines lines
Files == UNION {[1..n -> StatLines] : n \in 0..MaxFileLines}

InitAnalysis ==
    /\ NoPass
    /\ NoColors
    /\ schedule_file \in Files
    /\ settings_file = None
    /\ app = NewApp(load_settings(settings_file))
    /\ prompt = NoPrompt
    /\ legacy = <<>>

\* UnscheduleApp.on_mount: the first run_analysis
on_mount ==
    /\ app.calls = <<>>
    /\ legacy = <<>>
    /\ app' = run_analysis(app, schedule_file)
    /\ UNCHANGED <<passVars, colorVars, schedule_file, settings_file, prompt, legacy>>

\* the answers the legacy script is given at its prompts
Answers == {<<"", "", "">>, <<"5", "21", "p">>, <<"5", "x", "">>}

\* unscheduler.py main on the schedule file
LegacyMain ==
    \E answers \in Answers :
        /\ app.calls = <<>>
        /\ legacy = <<>>
        /\ legacy' = main(schedule_file, answers[1], answers[2], answers[3])
        /\ UNCHANGED <<passVars, colorVars, schedule_file, settings_file, prompt, app>>

NextAnalysis ==
    \/ on_mount
    \/ LegacyMain

SpecAnalysis == InitAnalysis /\ [][NextAnalysis]_vars

(***************************************************************************)
(* The hour prompts of the running app.                                    *)
(***************************************************************************)
\* the contents of the settings file the app can start from
SavedSettings ==
    { [default_settings EXCEPT !.start_hour = h[1], !.end_hour = h[2]] :
        h \in {<<0, 24>>, <<7, 8>>, <<3, 22>>} }

\* the schedule files the app is started on
HourFiles ==
    { <<"Weekly M 9a 10a Math @Work">>, <<"Weekly M 9x 10a Oops">> }

\* the answers typed at an hour prompt
Tokens ==
    { "", "0", "7", " 9 ", "24", "25", "24:00", "2400", "24:30", "7:30", "17:00",
      "23:30", "5pm", "12am", "abc" }

InitHours ==
    /\ NoPass
    /\ NoColors
    /\ schedule_file \in HourFiles
    /\ settings_file \in {None} \cup {Some(saved) : saved \in SavedSettings}
    /\ app = run_analysis(NewApp(load_settings(settings_file)), schedule_file)
    /\ prompt = NoPrompt
    /\ legacy = <<>>

\* lines 246-250: a changed hour is saved to the settings file
Saved(self) ==
    IF self.start_hour # app.start_hour \/ self.end_hour # app.end_hour
        THEN Some(Settings(self))
        ELSE settings_file

\* action_set_start_hour, with the answer to its prompt
SetStartHour ==
    \E result \in Tokens :
        /\ app' = action_set_start_hour(app, result, schedule_file)
        /\ prompt' = [action |-> "set_start_hour", result |-> result,
                      parsed |-> parse_start_hour(result)]
        /\ settings_file' = Saved(app')
        /\ UNCHANGED <<passVars, colorVars, schedule_file, legacy>>

\* action_set_end_hour, with the answer to its prompt
SetEndHour ==
    \E result \in Tokens :
        /\ app' = action_set_end_hour(app, result, schedule_file)
        /\ prompt' = [action |-> "set_end_hour", result |-> result,
                      parsed |-> parse_end_hour(result)]
        /\ settings_file' = Saved(app')
        /\ UNCHANGED <<passVars, colorVars, schedule_file, legacy>>

NextHours ==
    \/ SetStartHour
    \/ SetEndHour

SpecHours == InitHours /\ [][NextHours]_vars

(***************************************************************************)
(* A ColorAssigner used on its own: define_color and get_color calls on    *)
(* up to MaxCategories categories.                                         *)
(***************************************************************************)
Categories ==
    << "C01", "C02", "C03", "C04", "C05", "C06", "C07", "C08", "C09", "C10", "C11",
       "C12", "C13", "C14", "C15", "C16", "C17", "C18", "C19", "C20", "C21", "C22",
       "C23", "C24" >>

\* the categories and colors define_color is called with
ManualCategories == {"C01", "C03"}
ManualColors == {"red", "blue"}

InitColors ==
    /\ NoPass
    /\ NoApp
    /\ NoColors

\* define_color(category, color)
DefineColor ==
    \E category \in ManualCategories, color \in ManualColors :
        /\ color_assigner' = define_color(color_assigner, category, color)
        /\ returned' = [call |-> "define_color", category |-> category, color |-> color]
        /\ UNCHANGED <<passVars, appVars, requested, warnings>>

\* what a get_color call did, given its result r
Did(category, r) ==
    [call |-> "get_color", category |-> category, color |-> r.color, warned |-> r.warned,
     advanced |-> r.self.next_color_index - color_assigner.next_color_index]

\* the k-th category was named in a call before
Seen(k) ==
    \/ Categories[k] \in DOMAIN color_assigner.manual_color_map
    \/ Categories[k] \in DOMAIN color_assigner.auto_color_map

\* get_color(category), for a category named before or the first of the
\* list that was not (the names of new categories do not matter)
GetColor ==
    \E k \in 1..MaxCategories :
        /\ Seen(k) \/ \A j \in 1..(k - 1) : Seen(j)
        /\ color_assigner' = get_color(color_assigner, Categories[k]).self
        /\ returned' = Did(Categories[k], get_color(color_assigner, Categories[k]))
        /\ requested' =
              IF color_assigner'.auto_color_map # color_assigner.auto_color_map
                  THEN Append(requested, Categories[k]) ELSE requested
        /\ warnings' = warnings + (IF returned'.warned THEN 1 ELSE 0)
        /\ UNCHANGED <<passVars, appVars>>

NextColors ==
    \/ DefineColor
    \/ GetColor

SpecColors == InitColors /\ [][NextColors]_vars

(***************************************************************************)
(* The steps of the state machine are the steps of the loop of             *)
(* _parse_content: the locals are always those of the pass on the lines    *)
(* read so far.                                                            *)
(***************************************************************************)
LocalsArePass ==
    /\ locals = _parse_content(file_stream)
    /\ before = _parse_content(SubSeq(file_stream, 1, Len(file_stream) - 1))

(***************************************************************************)
(* What the properties below read of the input lines, tabulated once per   *)
(* line of the alphabet.                                                   *)
(***************************************************************************)
\* the line as the loop body sees it after line.strip()
StripOf == [raw \in Lines |-> Strip(raw)]
\* a line of the input is blank or a comment / the section marker / an
\* @-declaration
IsBlankOrCommentOf == [raw \in Lines |-> StripOf[raw] = "" \/ StartsWith(StripOf[raw], "#")]
IsMarkerOf == [raw \in Lines |-> Lower(StripOf[raw]) = "[non-work-definition]"]
IsDeclarationOf == [raw \in Lines |-> StartsWith(StripOf[raw], "@")]
IsBlankOrComment(raw) == IsBlankOrCommentOf[raw]
IsMarker(raw) == IsMarkerOf[raw]
IsDeclaration(raw) == IsDeclarationOf[raw]
\* the name an @Name[:color] line declares
DeclaredNameOf ==
    [raw \in Lines |-> Strip(SplitOn(SubSeq(StripOf[raw], 2, Len(StripOf[raw])), ":", 1)[1])]
\* the trailing inline @token of a line (None without one) and the words of
\* the rest of the line
InlineOf == [raw \in Lines |-> InlineCategory(StripOf[raw])]
WordsOf == [raw \in Lines |-> Words(StripOf[raw])]
\* the list a `non_work_categories = a, b` line gives: the text after the
\* first '=' split at the commas, each entry trimmed; None for any other line
ListOf ==
    [raw \in Lines |->
        IF /\ Find(StripOf[raw], "=") # 0
           /\ Strip(SubSeq(StripOf[raw], 1, Find(StripOf[raw], "=") - 1)) = "non_work_categories"
        THEN Some(StripEach(SplitOn(SubSeq(StripOf[raw], Find(StripOf[raw], "=") + 1,
                                           Len(StripOf[raw])), ",", -1)))
        ELSE None]

RECURSIVE ValidLetters(_)
\* the characters of a day token that are day letters, in order
ValidLetters(day_str) ==
    IF day_str = "" THEN <<>>
    ELSE (IF Head(day_str) \in {"M", "T", "W", "R", "F", "S", "U"}
            THEN <<Head(day_str)>> ELSE <<>>) \o ValidLetters(Tail(day_str))
\* the valid day letters of the upper-cased second word of a line
LettersOf ==
    [raw \in Lines |->
        IF Len(WordsOf[raw]) >= 2 THEN ValidLetters(Upper(WordsOf[raw][2])) ELSE <<>>]

(***************************************************************************)
(* What the properties below read off a state: the last line read, the     *)
(* locals before it, and what it appended.                                 *)
(***************************************************************************)
NLines == Len(file_stream)
\* the lines read before the last one
Front == SubSeq(file_stream, 1, NLines - 1)
\* the locals before the last line was read
Before == before
\* the last line read, as the loop body sees it after line.strip()
LastLine == StripOf[file_stream[NLines]]
LastWords == WordsOf[file_stream[NLines]]
LastInline == InlineOf[file_stream[NLines]]
\* the branch of the loop body that read the last line
LastKind == LineKind(Before, LastLine)
\* the commitments the last line appended
NewEvents == SubSeq(locals.commitments, Len(Before.commitments) + 1, Len(locals.commitments))
\* the line numbers of the "Error on line i" messages printed
ErrorLines(stdout) ==
    {stdout[j].error : j \in {j \in 1..Len(stdout) : "error" \in DOMAIN stdout[j]}}
\* the last line read raised inside the try block
LastFailed == NLines \in ErrorLines(locals.stdout)
\* the stream without its k-th line
RemoveAt(stream, k) == SubSeq(stream, 1, k - 1) \o SubSeq(stream, k + 1, Len(stream))
\* the last line read is a commitment line: not blank, comment, marker or
\* declaration, and read outside the non-work section
LastIsCommitmentLine ==
    /\ NLines > 0
    /\ ~Before.in_non_work_section
    /\ ~IsBlankOrComment(file_stream[NLines])
    /\ ~IsMarker(file_stream[NLines])
    /\ ~IsDeclaration(file_stream[NLines])
\* ... of at least 3 words
LastIsCommitment ==
    /\ LastIsCommitmentLine
    /\ Len(LastWords) >= 3

RECURSIVE LastDeclared(_)
\* the name of the most recent declaration line of a stream, None without one
LastDeclared(stream) ==
    IF stream = <<>> THEN None
    ELSE IF IsDeclaration(stream[Len(stream)]) THEN Some(DeclaredNameOf[stream[Len(stream)]])
    ELSE LastDeclared(SubSeq(stream, 1, Len(stream) - 1))

\* a marker was read and no line starting with '@' after the most recent one
InSection(stream) ==
    \E k \in 1..Len(stream) :
        /\ IsMarker(stream[k])
        /\ \A j \in (k + 1)..Len(stream) : ~IsDeclaration(stream[j])

\* line k of the stream is a `non_work_categories = ...` line read inside
\* the non-work section
IsNonWorkList(stream, k) ==
    /\ ListOf[stream[k]] # None
    /\ ~IsBlankOrComment(stream[k]) /\ ~IsMarker(stream[k]) /\ ~IsDeclaration(stream[k])
    /\ InSection(SubSeq(stream, 1, k - 1))

\* the color the assigner holds for a category
AssignedColor(self, category) ==
    IF category \in DOMAIN self.manual_color_map THEN self.manual_color_map[category]
    ELSE self.auto_color_map[category]

(***************************************************************************)
(* C1.  A commitment line that raises while being parsed sets the          *)
(* parsing-errors flag, appends no commitment and does not end the pass:   *)
(* the commitment list of the pass equals the list of the same input with  *)
(* the failing line removed.                                               *)
(***************************************************************************)
C1_FailingLineIsolated ==
    /\ (LastIsCommitmentLine /\ locals.stdout # Before.stdout)
          => /\ LastFailed
             /\ locals.parsing_errors_found
             /\ NewEvents = <<>>
    /\ LastIsCommitmentLine => pc # "raised" /\ LastKind = "commitment"
    /\ \A k \in ErrorLines(locals.stdout) :
          /\ locals.parsing_errors_found
          /\ pc = "returned" =>
                _parse_content(RemoveAt(file_stream, k)).commitments = locals.commitments

\* a pass returned after a failing line and a later line that appended commitments
C1_Witness ==
    /\ pc = "returned"
    /\ NLines = 3
    /\ ErrorLines(locals.stdout) = {2}
    /\ Len(Before.commitments) = 1
    /\ Len(NewEvents) = 2

(***************************************************************************)
(* C2.  No line makes an exception leave the pass: every pass reads every  *)
(* line and returns.                                                       *)
(***************************************************************************)
C2_NoExceptionEscapes == pc # "raised"

(***************************************************************************)
(* C3.  A commitment line (of at least 3 words) that parses without error  *)
(* appends exactly one commitment per valid day letter of its upper-cased  *)
(* day token, in the order of the letters, the commitments differing only  *)
(* in day_code; a token without any valid letter appends nothing and       *)
(* raises no error.                                                        *)
(***************************************************************************)
C3_OnePerValidDayLetter ==
    LastIsCommitment =>
        LET letters == LettersOf[file_stream[NLines]]
        IN  /\ ~LastFailed =>
                  /\ Len(NewEvents) = Len(letters)
                  /\ \A j \in 1..Len(NewEvents) :
                        /\ NewEvents[j].day_code = letters[j]
                        /\ [NewEvents[j] EXCEPT !.day_code = letters[1]] = NewEvents[1]
            /\ letters = <<>> => ~LastFailed /\ NewEvents = <<>>

\* the line `WeekA mxF 1p 2p Lab` appended a Monday and a Friday block
C3_Witness ==
    /\ LastIsCommitment
    /\ LastWords[2] = "mxF"
    /\ Len(NewEvents) = 2
    /\ NewEvents[1].day_code = "M"
    /\ NewEvents[2].day_code = "F"
    /\ NewEvents[1].type = "block"

(***************************************************************************)
(* C4.  The category of a block is the inline @token of its line if there  *)
(* is one, otherwise the name of the most recent declaration line,         *)
(* otherwise absent, and then the color is 'gray'.  The single line        *)
(* `Weekly M 9a 10a Test Event @TestCategory` gives no error, the known    *)
(* categories {TestCategory} and exactly one block: Weekly, M, 09:00 to    *)
(* 10:00, 'Test Event', TestCategory, not spanning midnight.               *)
(***************************************************************************)
C4_BlockCategory ==
    /\ LastIsCommitment =>
          \A j \in 1..Len(NewEvents) :
              NewEvents[j].type = "block" =>
                  /\ NewEvents[j].category =
                        IF LastInline # None THEN LastInline
                        ELSE LastDeclared(Front)
                  /\ NewEvents[j].category = None => NewEvents[j].color = "gray"
                  /\ NewEvents[j].category # None /\ NewEvents[j].category # Some("") =>
                        NewEvents[j].color =
                            AssignedColor(locals.color_assigner, NewEvents[j].category[1])
    /\ file_stream = <<"Weekly M 9a 10a Test Event @TestCategory">> =>
          /\ ~locals.parsing_errors_found
          /\ locals.categories_found = {"TestCategory"}
          /\ Len(locals.commitments) = 1
          /\ locals.commitments[1].recurrence = "Weekly"
          /\ locals.commitments[1].day_code = "M"
          /\ locals.commitments[1].type = "block"
          /\ locals.commitments[1].start = "09:00"
          /\ locals.commitments[1].end = "10:00"
          /\ locals.commitments[1].event = "Test Event"
          /\ locals.commitments[1].category = Some("TestCategory")
          /\ ~locals.commitments[1].spans_midnight

\* after @Teaching the inline-tagged line gave a TestCategory block and the
\* untagged line Teaching blocks
C4_Witness ==
    /\ pc = "returned"
    /\ file_stream = <<"@Teaching", "Weekly M 9a 10a Test Event @TestCategory",
                       "WeekA mxF 1p 2p Lab">>
    /\ locals.commitments[1].category = Some("TestCategory")
    /\ locals.commitments[2].category = Some("Teaching")
    /\ locals.commitments[3].category = Some("Teaching")

(***************************************************************************)
(* C5.  The current category is the name of the most recent @Name          *)
(* declaration line (none if there was none): no other line changes it,    *)
(* so a block line without inline category that follows an inline-tagged   *)
(* line still gets the declared category.                                  *)
(***************************************************************************)
C5_CurrentCategoryOnlyByDeclaration ==
    /\ locals.current_category = LastDeclared(file_stream)
    /\ (NLines > 0 /\ ~IsDeclaration(file_stream[NLines])) =>
          locals.current_category = Before.current_category
    /\ (LastIsCommitment /\ LastInline = None) =>
          \A j \in 1..Len(NewEvents) :
              NewEvents[j].type = "block" => NewEvents[j].category = LastDeclared(file_stream)

\* a Sleep block after the declaration of Sleep and an inline-tagged line
C5_Witness ==
    /\ file_stream = <<"@Sleep:red", "WeekB TR 7:30 Wake = up @Health", "Weekly S 11p 1a Sleep">>
    /\ locals.current_category = Some("Sleep")
    /\ Len(NewEvents) = 1
    /\ NewEvents[1].category = Some("Sleep")
    /\ Before.commitments[1].category = Some("Health")

(***************************************************************************)
(* C6.  A trigger never takes the current category: its category is the    *)
(* inline @token of its line, with the color assigned to that category,    *)
(* or it is absent and the color is the default trigger color 'black',     *)
(* which is not the 'gray' of an uncategorized block.                      *)
(***************************************************************************)
C6_TriggerCategoryInlineOnly ==
    /\ DEFAULT_TRIGGER_COLOR = "black"
    /\ DEFAULT_TRIGGER_COLOR # "gray"
    /\ LastIsCommitment =>
          \A j \in 1..Len(NewEvents) :
              NewEvents[j].type = "trigger" =>
                  IF LastInline # None
                      THEN /\ NewEvents[j].category = LastInline
                           /\ NewEvents[j].color =
                                 AssignedColor(locals.color_assigner, LastInline[1])
                      ELSE /\ NewEvents[j].category = None
                           /\ NewEvents[j].color = DEFAULT_TRIGGER_COLOR

\* a trigger without inline category read while Teaching is the current category
C6_Witness ==
    /\ file_stream = <<"@Teaching", "Weekly U 6a">>
    /\ locals.current_category = Some("Teaching")
    /\ Len(NewEvents) = 1
    /\ NewEvents[1].type = "trigger"
    /\ NewEvents[1].category = None
    /\ NewEvents[1].color = "black"

(***************************************************************************)
(* C7.  The in-non-work-section flag is true exactly when a marker         *)
(* (matched case-insensitively) was read and no line starting with '@'     *)
(* after the most recent marker; while it is true a line that is not       *)
(* blank, comment, marker or @-declaration is read as a key = value entry  *)
(* and appends no commitment.                                              *)
(***************************************************************************)
C7_NonWorkSectionFlag ==
    /\ locals.in_non_work_section = InSection(file_stream)
    /\ (/\ NLines > 0
        /\ InSection(Front)
        /\ ~IsBlankOrComment(file_stream[NLines])
        /\ ~IsMarker(file_stream[NLines])
        /\ ~IsDeclaration(file_stream[NLines]))
          => /\ LastKind = "entry"
             /\ locals.commitments = Before.commitments
             /\ locals.categories_found = Before.categories_found
             /\ locals.stdout = Before.stdout

\* a line that is a commitment line elsewhere, read inside the section
C7_Witness ==
    /\ file_stream = <<"Weekly U 6a", "[Non-Work-Definition]", "WeekB TR 7:30 Wake = up @Health">>
    /\ pc = "reading"
    /\ locals.in_non_work_section
    /\ Len(locals.commitments) = 1

C9_SpansMidnightIffEndBeforeStart ==
    \A j \in 1..Len(locals.commitments) :
        locals.commitments[j].type = "block" =>
            (locals.commitments[j].spans_midnight
                <=> StrLess(locals.commitments[j].end, locals.commitments[j].start))

(***************************************************************************)
(* C10.  A commitment line of at least 3 words gives blocks exactly when   *)
(* its fourth word exists and parses as a time: then start is the third    *)
(* word, end the fourth and the label the words from the fifth on.         *)
(* Otherwise it gives triggers whose time is the third word and whose      *)
(* label is the words from the fourth on (empty for a 3-word line).        *)
(***************************************************************************)
C10_ShapeByFourthWord ==
    LastIsCommitment =>
        \A j \in 1..Len(NewEvents) :
            IF Len(LastWords) >= 4 /\ parse(LastWords[4]).ok
                THEN /\ NewEvents[j].type = "block"
                     /\ NewEvents[j].start = strftime(parse(LastWords[3]))
                     /\ NewEvents[j].end = strftime(parse(LastWords[4]))
                     /\ NewEvents[j].event =
                           Join(" ", SubSeq(LastWords, 5, Len(LastWords)))
                ELSE /\ NewEvents[j].type = "trigger"
                     /\ NewEvents[j].time = strftime(parse(LastWords[3]))
                     /\ NewEvents[j].event =
                           Join(" ", SubSeq(LastWords, 4, Len(LastWords)))

\* a block line, a trigger line with a label and a 3-word trigger line
C10_Witness ==
    /\ file_stream = <<"Weekly S 11p 1a Sleep", "WeekB TR 7:30 Wake = up @Health", "Weekly U 6a">>
    /\ locals.commitments[1].type = "block"
    /\ locals.commitments[1].start = "23:00"
    /\ locals.commitments[1].end = "01:00"
    /\ locals.commitments[1].event = "Sleep"
    /\ locals.commitments[2].type = "trigger"
    /\ locals.commitments[2].time = "07:30"
    /\ locals.commitments[2].event = "Wake = up"
    /\ locals.commitments[4].type = "trigger"
    /\ locals.commitments[4].time = "06:00"
    /\ locals.commitments[4].event = ""

(***************************************************************************)
(* C11.  A commitment line of at least 3 words whose third word does not   *)
(* parse as a time sets the parsing-errors flag.                           *)
(***************************************************************************)
C11_TimeFailureSetsFlag ==
    (LastIsCommitment /\ ~parse(LastWords[3]).ok) => locals.parsing_errors_found

(***************************************************************************)
(* C12.  A commitment line that gives fewer than 3 words after its inline  *)
(* @token was cut off is skipped silently: it appends no commitment,       *)
(* prints nothing and leaves the parsing-errors flag as it was.            *)
(***************************************************************************)
C12_ShortLineSkipped ==
    (LastIsCommitmentLine /\ Len(LastWords) < 3) =>
        /\ NewEvents = <<>>
        /\ locals.commitments = Before.commitments
        /\ locals.parsing_errors_found = Before.parsing_errors_found
        /\ locals.stdout = Before.stdout
        /\ pc # "raised"

\* the 2-word line `Weekly M @X` was read into a pass without error
C12_Witness ==
    /\ NLines = 2
    /\ file_stream[2] = "Weekly M @X"
    /\ LastIsCommitmentLine
    /\ LastWords = <<"Weekly", "M">>
    /\ Len(locals.commitments) = 1
    /\ ~locals.parsing_errors_found
    /\ "X" \in locals.categories_found

(***************************************************************************)
(* What the properties below read off the app after run_analysis.          *)
(***************************************************************************)
\* the last run_analysis went through the analysis and the calendars
Analysed == Len(app.calls) = 5
\* what check_for_overlaps printed, the report of calculate_and_print_stats
\* and the events the two calendars were given
Printed == app.calls[2].printed
StatsReport == app.calls[3].report
WeekAEvents == app.calls[4].events
WeekBEvents == app.calls[5].events
\* the positions of the commitments of a list that belong to week v
WeekPositions(list, v) ==
    {i \in 1..Len(list) : list[i].recurrence = "Weekly" \/ list[i].recurrence = "Week" \o v}
\* the j-th smallest element of a set of positions
Nth(positions, j) == CHOOSE i \in positions : Cardinality({m \in positions : m < i}) = j - 1
\* selected holds exactly the commitments of list at the positions, in order
SelectedAt(selected, list, positions) ==
    /\ Len(selected) = Cardinality(positions)
    /\ \A j \in 1..Len(selected) : selected[j] = list[Nth(positions, j)]

(***************************************************************************)
(* C13.  get_events_for_week(commitments, v), v in {A, B}, gives exactly   *)
(* the commitments whose recurrence is Weekly or Week+v, in their          *)
(* original order: no WeekA commitment in the B selection, no WeekB        *)
(* commitment in the A selection, every Weekly commitment in both, and     *)
(* the list of the app is still the list the pass returned.                *)
(***************************************************************************)
C13_WeekSelection ==
    Analysed =>
        /\ SelectedAt(WeekAEvents, app.all_commitments, WeekPositions(app.all_commitments, "A"))
        /\ SelectedAt(WeekBEvents, app.all_commitments, WeekPositions(app.all_commitments, "B"))
        /\ \A j \in 1..Len(WeekBEvents) : WeekBEvents[j].recurrence # "WeekA"
        /\ \A j \in 1..Len(WeekAEvents) : WeekAEvents[j].recurrence # "WeekB"
        /\ \A i \in 1..Len(app.all_commitments) :
              app.all_commitments[i].recurrence = "Weekly" =>
                  /\ \E j \in 1..Len(WeekAEvents) : WeekAEvents[j] = app.all_commitments[i]
                  /\ \E j \in 1..Len(WeekBEvents) : WeekBEvents[j] = app.all_commitments[i]
        /\ app.all_commitments = parse_schedule_file(schedule_file).commitments

\* a file with a WeekA, a Monthly and a Weekly line was analysed
C13_Witness ==
    /\ Analysed
    /\ schedule_file = <<"WeekA M 9:30 11a Lab", "Monthly M 8a 12p Long @Work",
                         "Weekly M 9a 10a Math @Work">>
    /\ Len(WeekAEvents) = 2
    /\ Len(WeekBEvents) = 1
    /\ Len(app.all_commitments) = 3

\* the positions of the blocks of a day in a list of commitments
DayPositions(list, day_code) ==
    {i \in 1..Len(list) : list[i].type = "block" /\ list[i].day_code = day_code}
\* the place of the block at position i in the stable ordering by start of
\* the blocks at the positions
Rank(list, positions, i) ==
    1 + Cardinality({j \in positions :
                        \/ StrLess(list[j].start, list[i].start)
                        \/ list[j].start = list[i].start /\ j < i})
\* the block at place r of that ordering
AtRank(list, positions, r) == list[CHOOSE i \in positions : Rank(list, positions, i) = r]
\* the places r whose block starts before the block at place r - 1 ends
OverlapRanks(list, positions) ==
    {r \in 2..Cardinality(positions) :
        StrLess(AtRank(list, positions, r).start, AtRank(list, positions, r - 1).end)}
\* the warnings printed for a day
WarningsOf(printed, day_code) ==
    SelectSeq(printed, LAMBDA w : "overlap" \in DOMAIN w /\ w.overlap = DAY_NAME_MAP[day_code])

(***************************************************************************)
(* C14.  For each day, check_for_overlaps prints exactly the pairs of      *)
(* blocks of the day that are adjacent in the stable ordering by start     *)
(* and whose later block starts strictly before the earlier one ends.      *)
(* 09:00-10:00 and 09:30-11:00 give one warning, 09:00-10:00 and           *)
(* 10:00-11:00 none, and a block overlapping an earlier longer block that  *)
(* is not its predecessor is not reported against it.                      *)
(***************************************************************************)
C14_AdjacentPairsOnly ==
    Analysed =>
        /\ \A d \in {"M", "T", "W", "R", "F", "S", "U"} :
              LET positions == DayPositions(app.all_commitments, d)
                  ranks == OverlapRanks(app.all_commitments, positions)
                  ws == WarningsOf(Printed, d)
              IN  /\ Len(ws) = Cardinality(ranks)
                  /\ \A k \in 1..Len(ws) :
                        /\ ws[k].prev_event = AtRank(app.all_commitments, positions, Nth(ranks, k) - 1)
                        /\ ws[k].curr_event = AtRank(app.all_commitments, positions, Nth(ranks, k))
        /\ \A k \in 1..Len(Printed) :
              "overlap" \in DOMAIN Printed[k] \/ Printed = <<[note |-> "No overlaps found."]>>
        /\ schedule_file = <<"Weekly M 9a 10a Math @Work", "WeekA M 9:30 11a Lab">> =>
              /\ Len(Printed) = 1
              /\ Printed[1].prev_event.event = "Math"
              /\ Printed[1].curr_event.event = "Lab"
        /\ schedule_file = <<"Weekly M 9a 10a Math @Work", "WeekB M 10a 11a Talk @Unscheduled">> =>
              Printed = <<[note |-> "No overlaps found."]>>
        /\ schedule_file = <<"Monthly M 8a 12p Long @Work", "Weekly M 9a 10a Math @Work",
                             "WeekB M 10a 11a Talk @Unscheduled">> =>
              /\ Len(Printed) = 1
              /\ Printed[1].prev_event.event = "Long"
              /\ Printed[1].curr_event.event = "Math"

\* the 10:00-11:00 block inside the 08:00-12:00 block was not reported
\* against it: its predecessor in start order ends at 10:00
C14_Witness ==
    /\ Analysed
    /\ schedule_file = <<"Monthly M 8a 12p Long @Work", "Weekly M 9a 10a Math @Work",
                         "WeekB M 10a 11a Talk @Unscheduled">>
    /\ Len(Printed) = 1
    /\ Printed[1].overlap = "Monday"

\* the positions of the blocks that carry the category
CategoryPositions(list, category) ==
    {i \in 1..Len(list) : list[i].type = "block" /\ list[i].category = <<category>>}
\* ((end - start) mod 24h), in minutes, times 2 for Weekly and 1 otherwise
CycleMinutes(event) ==
    ((strptime(event.end) - strptime(event.start)) % (24 * 60))
        * (IF event.recurrence = "Weekly" THEN 2 ELSE 1)
\* the sum of CycleMinutes over the blocks at the positions
CycleSum(list, positions) == SumOver([i \in positions |-> CycleMinutes(list[i])], positions)

C16_EntriesTotal336 ==
    Analysed =>
        /\ StatsReport.category_hours["Unscheduled"]
               = total_hours - SumValues(StatsReport.accumulated)
        /\ \A c \in DOMAIN StatsReport.accumulated :
              StatsReport.category_hours[c] = StatsReport.accumulated[c]
        /\ SumValues(StatsReport.category_hours) = 2 * 7 * 24 * 60
        /\ app.all_commitments = <<>> =>
              StatsReport.category_hours = [c \in {"Unscheduled"} |-> 2 * 7 * 24 * 60]

\* the palette color of the k-th category that was given one
PaletteColor(k) == COLOR_PALETTE[((k - 1) % Len(COLOR_PALETTE)) + 1]

(***************************************************************************)
(* C17.  The k-th distinct category that get_color finds without manual    *)
(* override and without color receives palette[(k-1) mod paletteSize] and  *)
(* keeps it; a later get_color for it returns that color and leaves the    *)
(* cursor alone, so the cursor counts those categories and the             *)
(* (paletteSize+1)-th has the color of the 1st.  The palette warning is    *)
(* printed exactly once, at that (paletteSize+1)-th first request, and     *)
(* never again.                                                            *)
(***************************************************************************)
C17_PaletteWraps ==
    /\ \A k \in 1..Len(requested) :
          /\ color_assigner.auto_color_map[requested[k]] = PaletteColor(k)
          /\ \A j \in 1..Len(requested) : requested[j] = requested[k] => j = k
    /\ DOMAIN color_assigner.auto_color_map = {requested[k] : k \in 1..Len(requested)}
    /\ color_assigner.next_color_index = Len(requested)
    /\ warnings = (IF Len(requested) > Len(COLOR_PALETTE) THEN 1 ELSE 0)
    /\ Len(requested) > Len(COLOR_PALETTE) =>
          color_assigner.auto_color_map[requested[Len(COLOR_PALETTE) + 1]]
              = color_assigner.auto_color_map[requested[1]]
    /\ returned.call = "get_color" =>
          /\ returned.warned =>
                /\ Len(requested) = Len(COLOR_PALETTE) + 1
                /\ returned.category = requested[Len(requested)]
                /\ returned.advanced = 1
          /\ returned.category \notin DOMAIN color_assigner.manual_color_map =>
                /\ returned.color = color_assigner.auto_color_map[returned.category]
                /\ returned.advanced = 1 =>
                      returned.category = requested[Len(requested)]

\* the palette wrapped a second time and there is still one warning
C17_Witness ==
    /\ Len(requested) = 2 * Len(COLOR_PALETTE) + 1
    /\ warnings = 1
    /\ returned.call = "get_color"
    /\ returned.category = requested[Len(requested)]
    /\ returned.color = COLOR_PALETTE[1]
    /\ ~returned.warned

(***************************************************************************)
(* C18.  define_color(c, x) records x for c, replacing what was recorded   *)
(* and nothing else; get_color leaves the overrides alone, and for a       *)
(* category with an override it returns the recorded color, also when the  *)
(* category already has a palette color, without advancing the cursor      *)
(* and without warning.                                                    *)
(***************************************************************************)
C18_ManualWins ==
    [][/\ returned'.call = "define_color" =>
              /\ DOMAIN color_assigner'.manual_color_map
                     = DOMAIN color_assigner.manual_color_map \cup {returned'.category}
              /\ \A c \in DOMAIN color_assigner'.manual_color_map :
                    color_assigner'.manual_color_map[c]
                        = (IF c = returned'.category THEN returned'.color
                           ELSE color_assigner.manual_color_map[c])
       /\ returned'.call = "get_color" =>
              /\ color_assigner'.manual_color_map = color_assigner.manual_color_map
              /\ returned'.category \in DOMAIN color_assigner.manual_color_map =>
                    /\ returned'.color = color_assigner.manual_color_map[returned'.category]
                    /\ color_assigner'.next_color_index = color_assigner.next_color_index
                    /\ color_assigner'.auto_color_map = color_assigner.auto_color_map
                    /\ ~returned'.warned
                    /\ warnings' = warnings
      ]_vars

\* get_color returned the override of a category that had a palette color
C18_Witness ==
    /\ returned.call = "get_color"
    /\ returned.category \in DOMAIN color_assigner.auto_color_map
    /\ returned.category \in DOMAIN color_assigner.manual_color_map
    /\ returned.color = "red"
    /\ color_assigner.auto_color_map[returned.category] # "red"

(***************************************************************************)
(* C19.  Every token parse_start_hour accepts gives an hour in 0..23 and   *)
(* every token parse_end_hour accepts gives an hour in 1..24; 24 and       *)
(* 24:00 are rejected by parse_start_hour and are 24 for parse_end_hour;   *)
(* a bare integer outside the range is rejected by both.                   *)
(***************************************************************************)
C19_HourRanges ==
    /\ prompt.action = "set_start_hour" =>
          /\ prompt.parsed.ok => prompt.parsed.value \in 0..23
          /\ Strip(prompt.result) \in {"24", "24:00"} => ~prompt.parsed.ok
          /\ Strip(prompt.result) = "25" => ~prompt.parsed.ok
    /\ prompt.action = "set_end_hour" =>
          /\ prompt.parsed.ok => prompt.parsed.value \in 1..24
          /\ Strip(prompt.result) \in {"24", "24:00"} => prompt.parsed = Hour(24)
          /\ Strip(prompt.result) = "25" => ~prompt.parsed.ok

\* the calls of a sequence of calls and notes that act on a commitment list
ActingCalls(calls) ==
    {k \in 1..Len(calls) :
        /\ "call" \in DOMAIN calls[k]
        /\ calls[k].call \in {"check_for_overlaps", "calculate_and_print_stats",
                              "create_calendar_pdf"}}

(***************************************************************************)
(* C20.  When the pass over the schedule file returns with the error flag  *)
(* set, run_analysis makes no overlap check, no category-hours report and  *)
(* no calendar: it stores the partial commitment list, says `Parsing       *)
(* errors detected.` and returns; the legacy main prints the same and      *)
(* returns before its calendars and report.                                *)
(***************************************************************************)
C20_NoActionOnErrors ==
    /\ (/\ app.calls # <<>>
        /\ ~parse_schedule_file(schedule_file).raised
        /\ parse_schedule_file(schedule_file).parsing_errors_found) =>
          /\ ActingCalls(app.calls) = {}
          /\ app.calls = <<[call |-> "parse_schedule_file"]>>
          /\ app.report_panel = [markup |-> "Parsing errors detected."]
          /\ app.all_commitments = parse_schedule_file(schedule_file).commitments
    /\ (/\ legacy # <<>>
        /\ legacy_parse_schedule_file(schedule_file).parsing_errors_found) =>
          /\ ActingCalls(legacy) = {}
          /\ legacy = <<[call |-> "parse_schedule_file"], [exit |-> "Parsing errors detected."]>>

\* a file with one good and one failing line was analysed: nothing was
\* done with it and the good line's block is in the stored list
C20_Witness ==
    /\ schedule_file = <<"Weekly M 9a 10a Math @Work", "Weekly M 9x 10a Oops">>
    /\ app.calls = <<[call |-> "parse_schedule_file"]>>
    /\ Len(app.all_commitments) = 1
    /\ app.all_commitments[1].event = "Math"

\* the hours of the app are a valid pair
ValidHours(self) ==
    /\ 0 <= self.start_hour
    /\ self.start_hour < self.end_hour
    /\ self.end_hour <= 24

(***************************************************************************)
(* C21.  From saved settings with 0 <= start_hour < end_hour <= 24, every  *)
(* sequence of set-start-hour and set-end-hour answers keeps               *)
(* 0 <= start_hour < end_hour <= 24.  An answer that does not parse, is    *)
(* out of range or would make the pair non-increasing is refused at once   *)
(* (the panel says so) and leaves both hours as they were; any other       *)
(* answer but the empty one sets the hour it was asked for.                *)
(***************************************************************************)
C21_HoursStayValid ==
    /\ []ValidHours(app)
    /\ [][/\ prompt'.action = "set_start_hour" /\ prompt'.result # "" =>
              IF prompt'.parsed.ok /\ prompt'.parsed.value < app.end_hour
                  THEN /\ app'.start_hour = prompt'.parsed.value
                       /\ app'.end_hour = app.end_hour
                  ELSE /\ app'.start_hour = app.start_hour
                       /\ app'.end_hour = app.end_hour
                       /\ app'.report_panel = [markup |-> "Invalid start time"]
                       /\ app'.calls = app.calls
          /\ prompt'.action = "set_end_hour" /\ prompt'.result # "" =>
              IF prompt'.parsed.ok /\ prompt'.parsed.value > app.start_hour
                  THEN /\ app'.end_hour = prompt'.parsed.value
                       /\ app'.start_hour = app.start_hour
                  ELSE /\ app'.start_hour = app.start_hour
                       /\ app'.end_hour = app.end_hour
                       /\ app'.report_panel = [markup |-> "Invalid end time"]
                       /\ app'.calls = app.calls
         ]_vars

\* 17:00 was refused as a start hour because the end hour is 8
C21_Witness ==
    /\ prompt.action = "set_start_hour"
    /\ prompt.result = "17:00"
    /\ prompt.parsed = Hour(17)
    /\ app.start_hour = 7
    /\ app.end_hour = 8
    /\ app.report_panel = [markup |-> "Invalid start time"]

\* no block of the list ends before it starts
NoneSpansMidnight(list) ==
    \A i \in 1..Len(list) : list[i].type = "block" => ~StrLess(list[i].end, list[i].start)
\* the blocks at positions i and j do not intersect: one ends at or before
\* the start of the other
Apart(list, i, j) ==
    \/ ~StrLess(list[j].start, list[i].end)
    \/ ~StrLess(list[i].start, list[j].end)

(***************************************************************************)
(* C22.  When no block of the list spans midnight and check_for_overlaps   *)
(* prints no warning for a day, no two blocks of that day intersect: of    *)
(* every pair, adjacent in start order or not, one ends at or before the   *)
(* start of the other.                                                     *)
(***************************************************************************)
C22_CleanReportIsSound ==
    (Analysed /\ NoneSpansMidnight(app.all_commitments)) =>
        \A d \in {"M", "T", "W", "R", "F", "S", "U"} :
            WarningsOf(Printed, d) = <<>> =>
                \A i, j \in DayPositions(app.all_commitments, d) :
                    i # j => Apart(app.all_commitments, i, j)

\* three blocks of Monday, given out of start order, with a clean report
C22_Witness ==
    /\ Analysed
    /\ schedule_file = <<"Weekly MS 23:30 23:45 Tea @Sleep", "WeekB M 10a 11a Talk @Unscheduled",
                         "Weekly M 9a 10a Math @Work">>
    /\ Cardinality(DayPositions(app.all_commitments, "M")) = 3
    /\ NoneSpansMidnight(app.all_commitments)
    /\ Printed = <<[note |-> "No overlaps found."]>>

\* a warning for the pair was printed
Reported(printed, prev_event, curr_event) ==
    \E k \in 1..Len(printed) :
        /\ "overlap" \in DOMAIN printed[k]
        /\ printed[k].prev_event = prev_event
        /\ printed[k].curr_event = curr_event

(***************************************************************************)
(* C23.  For two blocks of a day that are adjacent in start order, where   *)
(* the earlier one spans midnight (its end is before its start) and the    *)
(* other starts after it, check_for_overlaps prints a warning for the      *)
(* pair.                                                                   *)
(***************************************************************************)
C23_MidnightSpanReported ==
    Analysed =>
        \A d \in {"M", "T", "W", "R", "F", "S", "U"} :
            \A r \in 2..Cardinality(DayPositions(app.all_commitments, d)) :
                LET prev_event == AtRank(app.all_commitments, DayPositions(app.all_commitments, d), r - 1)
                    curr_event == AtRank(app.all_commitments, DayPositions(app.all_commitments, d), r)
                IN  (/\ StrLess(prev_event.end, prev_event.start)
                     /\ StrLess(prev_event.start, curr_event.start)) =>
                        Reported(Printed, prev_event, curr_event)

\* every commitment of the pass that has a category has it in categories_found
CategoriesKnown(ctx) ==
    \A k \in 1..Len(ctx.commitments) :
        ctx.commitments[k].category # None =>
            ctx.commitments[k].category[1] \in ctx.categories_found

(***************************************************************************)
(* C24.  After every line of a pass, categories_found contains the         *)
(* category of every commitment appended so far that has one (block or     *)
(* trigger, inline or from a declaration); a line only adds to             *)
(* categories_found and only appends to the commitments: what was          *)
(* appended stays as it was.                                               *)
(***************************************************************************)
C24_CategoriesAndCommitmentsGrow ==
    /\ []CategoriesKnown(locals)
    /\ [][/\ locals.categories_found \subseteq locals'.categories_found
          /\ Len(locals'.commitments) >= Len(locals.commitments)
          /\ SubSeq(locals'.commitments, 1, Len(locals.commitments)) = locals.commitments
         ]_vars

\* a trigger with an inline category was appended after a block that took
\* the declared category
C24_Witness ==
    /\ file_stream = <<"@Teaching", "WeekA mxF 1p 2p Lab", "WeekB TR 7:30 Wake = up @Health">>
    /\ Len(before.commitments) = 2
    /\ Len(locals.commitments) = 4
    /\ locals.commitments[1].category = Some("Teaching")
    /\ locals.commitments[4].type = "trigger"
    /\ locals.commitments[4].category = Some("Health")
    /\ locals.categories_found = {"Teaching", "Health"}

\* the duration of a block, (end - start) mod 24h, in minutes
BlockMinutes(event) == (strptime(event.end) - strptime(event.start)) % (24 * 60)
\* the total duration of the blocks of a category among the events of a week
WeekMinutes(events, category) ==
    SumOver([i \in CategoryPositions(events, category) |-> BlockMinutes(events[i])],
            CategoryPositions(events, category))

(***************************************************************************)
(* C25.  For every commitment list a pass returns, the hours that          *)
(* calculate_and_print_stats accumulates for a category equal the total    *)
(* duration of the category's blocks in get_events_for_week(list, A) plus  *)
(* that in get_events_for_week(list, B).                                   *)
(***************************************************************************)
C25_ReportAgreesWithCalendars ==
    Analysed =>
        \A c \in DOMAIN StatsReport.accumulated :
            StatsReport.accumulated[c]
                = WeekMinutes(WeekAEvents, c) + WeekMinutes(WeekBEvents, c)
====
